---- MODULE Spec2Model ----
(***************************************************************************)
(* Model of the ADI Tasks plugin (src/src/lib.rs): the process-wide        *)
(* statics TASKS and PROJECT_PATH, the plugin entry points (plugin_init,   *)
(* handle_message), the MCP tools and resources services (call_tool,       *)
(* read_resource), and the task manager they call (adi_tasks_core), whose  *)
(* implementation is not part of the sources and is modelled from the      *)
(* design document (spec.md, sections 3 to 5).                             *)
(***************************************************************************)
EXTENDS Integers, Sequences, FiniteSets, TLC

VARIABLES TASKS, PROJECT_PATH, stores, issued, req, resp

vars == <<TASKS, PROJECT_PATH, stores, issued, req, resp>>

(***************************************************************************)
(* Bounds.                                                                 *)
(***************************************************************************)
\* Number of task ids one store hands out before creates are no longer issued.
MaxTasks == 2

(***************************************************************************)
(* Strings that the code inspects character by character are sequences of  *)
(* one-character strings; all other strings are TLA+ strings.              *)
(***************************************************************************)
UpperCase == <<"A","B","C","D","E","F","G","H","I","J","K","L","M",
               "N","O","P","Q","R","S","T","U","V","W","X","Y","Z">>
LowerCase == <<"a","b","c","d","e","f","g","h","i","j","k","l","m",
               "n","o","p","q","r","s","t","u","v","w","x","y","z">>

\* char::to_lowercase on the ASCII range.
char_to_lowercase(c) ==
    IF \E i \in DOMAIN UpperCase : UpperCase[i] = c
    THEN LowerCase[CHOOSE i \in DOMAIN UpperCase : UpperCase[i] = c]
    ELSE c

\* str::to_lowercase.
to_lowercase(s) == [i \in DOMAIN s |-> char_to_lowercase(s[i])]

S_todo        == <<"t","o","d","o">>
S_in_progress == <<"i","n","_","p","r","o","g","r","e","s","s">>
S_done        == <<"d","o","n","e">>
S_blocked     == <<"b","l","o","c","k","e","d">>
S_cancelled   == <<"c","a","n","c","e","l","l","e","d">>
S_inprogress  == <<"i","n","p","r","o","g","r","e","s","s">>
S_Done        == <<"D","o","n","e">>

\* The status names of the tasks_list input schema.
StatusNames == {S_todo, S_in_progress, S_done, S_blocked, S_cancelled}

(***************************************************************************)
(* adi_tasks_core::TaskStatus, by variant name.                            *)
(***************************************************************************)
TaskStatus == {"Todo", "InProgress", "Done", "Blocked", "Cancelled"}

\* format!("{:?}", status): the variant's name.
DebugFmt(status) ==
    CASE status = "Todo"       -> <<"T","o","d","o">>
      [] status = "InProgress" -> <<"I","n","P","r","o","g","r","e","s","s">>
      [] status = "Done"       -> <<"D","o","n","e">>
      [] status = "Blocked"    -> <<"B","l","o","c","k","e","d">>
      [] status = "Cancelled"  -> <<"C","a","n","c","e","l","l","e","d">>

(***************************************************************************)
(* Option<T>.                                                              *)
(***************************************************************************)
Some(x) == [some |-> TRUE, v |-> x]
NoneInt == [some |-> FALSE, v |-> 0]
NoneStr == [some |-> FALSE, v |-> <<>>]
NoneTxt == [some |-> FALSE, v |-> ""]

(***************************************************************************)
(* Results.  A core result carries the error kind of spec.md section 7;    *)
(* a service result carries the invocation error message (the pieces of    *)
(* its format string, in order) or the payload.                            *)
(***************************************************************************)
\* The payload of a result: the content type, the text's fixed part, the id
\* and status name formatted into it, the tasks serialised into it, and the
\* uri of a resource.
NoBody == [type |-> "", msg |-> "", id |-> 0, status |-> <<>>, tasks |-> <<>>, uri |-> ""]

CoreOk(id, tasks) == [ok |-> TRUE,  err |-> "", id |-> id, tasks |-> tasks]
CoreErr(kind)     == [ok |-> FALSE, err |-> kind, id |-> 0, tasks |-> <<>>]

\* Ok(String) of a service call (and ROk of handle_message).
SvcOk(body)  == [ok |-> TRUE,  err |-> <<>>, code |-> 0, body |-> body]
\* ServiceError::invocation_error(msg).
InvocationError(msg) == [ok |-> FALSE, err |-> msg, code |-> 0, body |-> NoBody]
\* ServiceError::method_not_found(method).
MethodNotFound(method) ==
    [ok |-> FALSE, err |-> <<"method_not_found", method>>, code |-> 0, body |-> NoBody]
\* PluginError::new(code, msg).
PluginError(code, msg) == [ok |-> FALSE, err |-> msg, code |-> code, body |-> NoBody]

(***************************************************************************)
(* The task manager (adi_tasks_core::TaskManager).                         *)
(***************************************************************************)
\* "global" is where open_global() keeps its store; the others are project paths.
GlobalLoc == "global"
ProjectPaths == {"/p"}
Locations == {GlobalLoc} \cup ProjectPaths

\* A location at which no store has been created.
NoStore == [exists |-> FALSE, tasks |-> <<>>, next_id |-> 1]
\* A freshly created store.
EmptyStore == [exists |-> TRUE, tasks |-> <<>>, next_id |-> 1]

Ids(store) == DOMAIN store.tasks

RECURSIVE Ascending(_)
\* The elements of a finite set of integers in ascending order.
Ascending(S) ==
    IF S = {} THEN <<>>
    ELSE LET m == CHOOSE x \in S : \A y \in S : x <= y
         IN <<m>> \o Ascending(S \ {m})

\* Status State Machine: the transitions allowed from a status.
Allowed(from) ==
    CASE from = "Todo"       -> {"InProgress", "Blocked", "Cancelled"}
      [] from = "InProgress" -> {"Done", "Blocked", "Cancelled", "Todo"}
      [] from = "Blocked"    -> {"Todo", "InProgress", "Cancelled"}
      [] from = "Done"       -> {}
      [] from = "Cancelled"  -> {}

\* transition(current, requested).
transition(current, requested) ==
    IF requested \in Allowed(current) THEN CoreOk(0, <<>>) ELSE CoreErr("InvalidTransition")

RECURSIVE ReachFrom(_, _, _)
\* The ids reachable from the ids in `frontier` along depends_on edges.
ReachFrom(store, frontier, seen) ==
    IF frontier \subseteq seen THEN seen
    ELSE LET now == seen \cup frontier
             nxt == UNION {store.tasks[i].depends_on : i \in frontier \cap Ids(store)}
         IN ReachFrom(store, nxt, now)

\* validate_new_edges that looks for a cycle among the proposed targets only,
\* not along the edges already stored.
validate_new_edges_direct_only(store, task_id, proposed) ==
    IF \E d \in proposed : d \notin Ids(store) THEN CoreErr("UnknownDependency")
    ELSE IF task_id \in proposed THEN CoreErr("CyclicDependency")
    ELSE CoreOk(0, <<>>)

\* validate_new_edges(task_id, proposed_depends_on).
validate_new_edges(store, task_id, proposed) ==
    IF \E d \in proposed : d \notin Ids(store) THEN CoreErr("UnknownDependency")
    ELSE IF task_id \in ReachFrom(store, proposed, {}) THEN CoreErr("CyclicDependency")
    ELSE CoreOk(0, <<>>)

\* dependencies_satisfied(task_id).
dependencies_satisfied(store, id) ==
    \A d \in store.tasks[id].depends_on :
        d \in Ids(store) /\ store.tasks[d].status = "Done"

\* dependents_of(task_id).
dependents_of(store, id) == {t \in Ids(store) : id \in store.tasks[t].depends_on}

\* list(): all tasks by ascending id.
list(store) ==
    LET ids == Ascending(Ids(store))
    IN [i \in DOMAIN ids |-> store.tasks[ids[i]]]

\* ready_tasks(all_tasks).
ready_tasks(store) ==
    LET ids == Ascending({t \in Ids(store) :
                    store.tasks[t].status = "Todo" /\ dependencies_satisfied(store, t)})
    IN [i \in DOMAIN ids |-> store.tasks[ids[i]]]

\* Every facade operation returns <<result, store afterwards>>.

\* insert that numbers the new task one past the largest stored id.
insert_reusing_ids(store, c) ==
    LET id == IF Ids(store) = {} THEN 1
              ELSE 1 + CHOOSE m \in Ids(store) : \A i \in Ids(store) : i <= m
        task == [id |-> id, title |-> c.title, description |-> c.description,
                 status |-> "Todo", depends_on |-> c.depends_on]
    IN <<CoreOk(id, <<>>),
         [store EXCEPT !.tasks = [i \in Ids(store) \cup {id} |->
                                     IF i = id THEN task ELSE store.tasks[i]],
                       !.next_id = id + 1]>>

\* insert(task): assigns the next TaskId and persists.
insert(store, c) ==
    LET id == store.next_id
        task == [id |-> id, title |-> c.title, description |-> c.description,
                 status |-> "Todo", depends_on |-> c.depends_on]
    IN <<CoreOk(id, <<>>),
         [store EXCEPT !.tasks = [i \in Ids(store) \cup {id} |->
                                     IF i = id THEN task ELSE store.tasks[i]],
                       !.next_id = id + 1]>>

\* create_task that takes the id before it validates the dependencies.
create_task_reserves_id(store, c, io) ==
    IF c.title = "" THEN <<CoreErr("ValidationError"), store>>
    ELSE IF ~io THEN <<CoreErr("IoFailure"), store>>
    ELSE LET reserved == [store EXCEPT !.next_id = @ + 1]
             v == validate_new_edges(store, store.next_id, c.depends_on)
         IN IF ~v.ok THEN <<v, reserved>> ELSE insert(store, c)

\* create_task(CreateTask).
create_task(store, c, io) ==
    IF c.title = "" THEN <<CoreErr("ValidationError"), store>>
    ELSE IF ~io THEN <<CoreErr("IoFailure"), store>>
    ELSE LET v == validate_new_edges(store, store.next_id, c.depends_on)
         IN IF ~v.ok THEN <<v, store>> ELSE insert(store, c)

\* get_task(id).
get_task(store, id, io) ==
    IF ~io THEN <<CoreErr("IoFailure"), store>>
    ELSE IF id \notin Ids(store) THEN <<CoreErr("NotFound"), store>>
    ELSE <<CoreOk(id, <<store.tasks[id]>>), store>>

\* list() of the facade.
list_tasks(store, io) ==
    IF ~io THEN <<CoreErr("IoFailure"), store>>
    ELSE <<CoreOk(0, list(store)), store>>

\* update_status(id, new_status).
update_status(store, id, new_status, io) ==
    IF ~io THEN <<CoreErr("IoFailure"), store>>
    ELSE IF id \notin Ids(store) THEN <<CoreErr("NotFound"), store>>
    ELSE LET t == transition(store.tasks[id].status, new_status)
         IN IF ~t.ok THEN <<t, store>>
            ELSE <<CoreOk(id, <<>>), [store EXCEPT !.tasks[id].status = new_status]>>

\* delete_task(id), with the rejecting deletion policy.
delete_task(store, id, io) ==
    IF ~io THEN <<CoreErr("IoFailure"), store>>
    ELSE IF id \notin Ids(store) THEN <<CoreErr("NotFound"), store>>
    ELSE IF dependents_of(store, id) # {} THEN <<CoreErr("HasDependents"), store>>
    ELSE <<CoreOk(id, <<>>),
           [store EXCEPT !.tasks = [i \in Ids(store) \ {id} |-> store.tasks[i]]]>>

\* get_ready().
get_ready(store, io) ==
    IF ~io THEN <<CoreErr("IoFailure"), store>>
    ELSE <<CoreOk(0, ready_tasks(store)), store>>

\* A dependency-affecting operation on an existing task: the proposed edges
\* are validated by validate_new_edges and then added to the task.
add_dependencies(store, id, proposed, io) ==
    IF ~io THEN <<CoreErr("IoFailure"), store>>
    ELSE IF id \notin Ids(store) THEN <<CoreErr("NotFound"), store>>
    ELSE LET v == validate_new_edges(store, id, proposed)
         IN IF ~v.ok THEN <<v, store>>
            ELSE <<CoreOk(id, <<>>),
                   [store EXCEPT !.tasks[id].depends_on = @ \cup proposed]>>

\* TaskManager::open(path) / open_global(): opens or creates the store.
open(store, open_ok) ==
    IF ~open_ok THEN <<CoreErr("IoFailure"), store>>
    ELSE <<CoreOk(0, <<>>), IF store.exists THEN store ELSE EmptyStore>>

(***************************************************************************)
(* The plugin (src/src/lib.rs).                                            *)
(***************************************************************************)
\* OnceCell<T>: empty until the first set.
OnceCellNew == [init |-> FALSE, v |-> NoneTxt]

\* A cell whose set replaces the value it holds.
OnceCellSet_overwrites(cell, value) == [init |-> TRUE, v |-> value]

\* OnceCell::set(value): stores the value only if the cell is empty.
OnceCellSet(cell, value) == IF cell.init THEN cell ELSE [init |-> TRUE, v |-> value]

\* Result::ok() of an open: the manager's store location, or None.
OpenedOk(res, loc) == IF res.ok THEN Some(loc) ELSE NoneTxt

\* TASKS.get().and_then(|t| t.as_ref()): the manager, if there is one.
TasksGet(cell) == IF cell.init /\ cell.v.some THEN cell.v ELSE NoneTxt

\* The arguments object of a tool call; a field that is absent, or not of
\* the type the tool reads it as, is None.
NoArgs == [status |-> NoneStr, id |-> NoneInt, title |-> NoneTxt, description |-> NoneTxt]

\* tool_result(text): the text as one content item of type "text".
tool_result(body) == [body EXCEPT !.type = "text"]

\* The status filter of tasks_list.
status_matches(task, status) == to_lowercase(DebugFmt(task.status)) = status

\* parse_status with the arms of "in_progress" and "done" exchanged.
parse_status_swapped(status_str) ==
    CASE status_str = S_todo        -> Some("Todo")
      [] status_str = S_in_progress -> Some("Done")
      [] status_str = S_done        -> Some("InProgress")
      [] status_str = S_blocked     -> Some("Blocked")
      [] status_str = S_cancelled   -> Some("Cancelled")
      [] OTHER                      -> NoneTxt

\* The status names of tasks_update.
parse_status(status_str) ==
    CASE status_str = S_todo        -> Some("Todo")
      [] status_str = S_in_progress -> Some("InProgress")
      [] status_str = S_done        -> Some("Done")
      [] status_str = S_blocked     -> Some("Blocked")
      [] status_str = S_cancelled   -> Some("Cancelled")
      [] OTHER                      -> NoneTxt

\* e.to_string() of a core error, as an invocation error.
map_err(res) == InvocationError(<<res.err>>)

\* Every tool returns <<service result, store afterwards>>.

tasks_list(store, args, io) ==
    LET r == list_tasks(store, io)
        Keep(t) == status_matches(t, args.status.v)
    IN IF ~r[1].ok THEN <<map_err(r[1]), r[2]>>
       ELSE <<SvcOk(tool_result([NoBody EXCEPT !.tasks =
                        IF args.status.some THEN SelectSeq(r[1].tasks, Keep)
                        ELSE r[1].tasks])), r[2]>>

tasks_create(store, args, io) ==
    IF ~args.title.some THEN <<InvocationError(<<"Missing title">>), store>>
    ELSE LET create == [title |-> args.title.v, description |-> args.description,
                        depends_on |-> {}]
             r == create_task(store, create, io)
         IN IF ~r[1].ok THEN <<map_err(r[1]), r[2]>>
            ELSE <<SvcOk(tool_result([NoBody EXCEPT !.msg = "Created task #",
                                                    !.id = r[1].id])), r[2]>>

tasks_show(store, args, io) ==
    IF ~args.id.some THEN <<InvocationError(<<"Missing id">>), store>>
    ELSE LET r == get_task(store, args.id.v, io)
         IN IF ~r[1].ok THEN <<map_err(r[1]), r[2]>>
            ELSE <<SvcOk(tool_result([NoBody EXCEPT !.tasks = r[1].tasks])), r[2]>>

tasks_update(store, args, io) ==
    IF ~args.id.some THEN <<InvocationError(<<"Missing id">>), store>>
    ELSE IF ~args.status.some THEN <<InvocationError(<<"Missing status">>), store>>
    ELSE LET status == parse_status(args.status.v)
         IN IF ~status.some THEN <<InvocationError(<<"Invalid status">>), store>>
            ELSE LET r == update_status(store, args.id.v, status.v, io)
                 IN IF ~r[1].ok THEN <<map_err(r[1]), r[2]>>
                    ELSE <<SvcOk(tool_result([NoBody EXCEPT !.msg = "Updated task #",
                                                            !.id = args.id.v,
                                                            !.status = args.status.v])),
                           r[2]>>

\* tasks_delete that drops the result of delete_task.
tasks_delete_ignores_error(store, args, io) ==
    IF ~args.id.some THEN <<InvocationError(<<"Missing id">>), store>>
    ELSE LET r == delete_task(store, args.id.v, io)
         IN <<SvcOk(tool_result([NoBody EXCEPT !.msg = "Deleted task #",
                                               !.id = args.id.v])), r[2]>>

tasks_delete(store, args, io) ==
    IF ~args.id.some THEN <<InvocationError(<<"Missing id">>), store>>
    ELSE LET r == delete_task(store, args.id.v, io)
         IN IF ~r[1].ok THEN <<map_err(r[1]), r[2]>>
            ELSE <<SvcOk(tool_result([NoBody EXCEPT !.msg = "Deleted task #",
                                                    !.id = args.id.v])), r[2]>>

\* call_tool(tool_name, args), on the statics `cell` (TASKS) and `S` (the
\* stores): <<service result, stores afterwards>>.
call_tool(cell, S, tool_name, args, io) ==
    LET tasks == TasksGet(cell)
    IN IF ~tasks.some THEN <<InvocationError(<<"Tasks not initialized">>), S>>
       ELSE LET store == S[tasks.v]
                r == CASE tool_name = "tasks_list"   -> tasks_list(store, args, io)
                       [] tool_name = "tasks_create" -> tasks_create(store, args, io)
                       [] tool_name = "tasks_show"   -> tasks_show(store, args, io)
                       [] tool_name = "tasks_update" -> tasks_update(store, args, io)
                       [] tool_name = "tasks_delete" -> tasks_delete(store, args, io)
                       [] OTHER -> <<InvocationError(<<"Unknown tool: ", tool_name>>), store>>
            IN <<r[1], [S EXCEPT ![tasks.v] = r[2]]>>

\* read_resource whose "tasks://ready" arm calls list() like "tasks://all".
read_resource_ready_lists(cell, S, uri, io) ==
    LET tasks == TasksGet(cell)
    IN IF ~tasks.some THEN <<InvocationError(<<"Tasks not initialized">>), S>>
       ELSE IF uri \in {"tasks://all", "tasks://ready"}
       THEN LET r == list_tasks(S[tasks.v], io)
            IN IF ~r[1].ok THEN <<map_err(r[1]), S>>
               ELSE <<SvcOk([NoBody EXCEPT !.uri = uri, !.type = "application/json",
                                           !.tasks = r[1].tasks]),
                      [S EXCEPT ![tasks.v] = r[2]]>>
       ELSE <<InvocationError(<<"Unknown resource: ", uri>>), S>>

\* read_resource(uri): <<service result, stores afterwards>>.
read_resource(cell, S, uri, io) ==
    LET tasks == TasksGet(cell)
    IN IF ~tasks.some THEN <<InvocationError(<<"Tasks not initialized">>), S>>
       ELSE IF uri = "tasks://all"
       THEN LET r == list_tasks(S[tasks.v], io)
            IN IF ~r[1].ok THEN <<map_err(r[1]), S>>
               ELSE <<SvcOk([NoBody EXCEPT !.uri = uri, !.type = "application/json",
                                           !.tasks = r[1].tasks]),
                      [S EXCEPT ![tasks.v] = r[2]]>>
       ELSE IF uri = "tasks://ready"
       THEN LET r == get_ready(S[tasks.v], io)
            IN IF ~r[1].ok THEN <<map_err(r[1]), S>>
               ELSE <<SvcOk([NoBody EXCEPT !.uri = uri, !.type = "application/json",
                                           !.tasks = r[1].tasks]),
                      [S EXCEPT ![tasks.v] = r[2]]>>
       ELSE <<InvocationError(<<"Unknown resource: ", uri>>), S>>

\* mcp_tools_invoke(method, args): <<service result, stores afterwards>>.
\* `json_ok` says whether args parses as JSON; p is the parsed object.
mcp_tools_invoke(cell, S, method, json_ok, p, io) ==
    IF method = "list_tools" THEN <<SvcOk([NoBody EXCEPT !.msg = "list_tools_json"]), S>>
    ELSE IF method = "call_tool"
    THEN IF ~json_ok THEN <<InvocationError(<<"Invalid args: ">>), S>>
         ELSE call_tool(cell, S, IF p.name.some THEN p.name.v ELSE "", p.args, io)
    ELSE <<MethodNotFound(method), S>>

\* mcp_resources_invoke(method, args): <<service result, stores afterwards>>.
mcp_resources_invoke(cell, S, method, json_ok, p, io) ==
    IF method = "list_resources"
    THEN <<SvcOk([NoBody EXCEPT !.msg = "list_resources_json"]), S>>
    ELSE IF method = "read_resource"
    THEN IF ~json_ok THEN <<InvocationError(<<"Invalid args: ">>), S>>
         ELSE IF ~p.name.some THEN <<InvocationError(<<"Missing uri">>), S>>
         ELSE read_resource(cell, S, p.name.v, io)
    ELSE <<MethodNotFound(method), S>>

\* plugin_init(ctx): the statics and stores afterwards, and the return code.
\* tools_reg and resources_reg are the host's answers to register_svc
\* (0: registered, otherwise the error code).
plugin_init(cell, path, S, open_ok, tools_reg, resources_reg) ==
    LET o == open(S[GlobalLoc], open_ok)
    IN [PROJECT_PATH |-> OnceCellSet(path, Some(".")),
        TASKS |-> OnceCellSet(cell, OpenedOk(o[1], GlobalLoc)),
        stores |-> [S EXCEPT ![GlobalLoc] = o[2]],
        code |-> IF tools_reg # 0 THEN tools_reg
                 ELSE IF resources_reg # 0 THEN resources_reg
                 ELSE 0]

\* handle_message that makes the manager it opened the one in TASKS.
handle_message_switches(cell, path, S, msg_type, msg_data, open_ok) ==
    IF msg_type = "set_project_path"
    THEN LET o == open(S[msg_data], open_ok)
         IN [PROJECT_PATH |-> IF o[1].ok THEN [init |-> TRUE, v |-> Some(msg_data)] ELSE path,
             TASKS |-> IF o[1].ok THEN [init |-> TRUE, v |-> Some(msg_data)] ELSE cell,
             stores |-> [S EXCEPT ![msg_data] = o[2]],
             result |-> IF o[1].ok THEN SvcOk([NoBody EXCEPT !.msg = "ok"])
                        ELSE PluginError(1, <<"Failed to open tasks: ", o[1].err>>)]
    ELSE [PROJECT_PATH |-> path, TASKS |-> cell, stores |-> S,
          result |-> PluginError(-1, <<"Unknown message type: ", msg_type>>)]

\* handle_message(ctx, msg_type, msg_data): the statics and stores
\* afterwards, and the result.
handle_message(cell, path, S, msg_type, msg_data, open_ok) ==
    IF msg_type = "set_project_path"
    THEN LET o == open(S[msg_data], open_ok)
         IN [PROJECT_PATH |-> path, TASKS |-> cell,
             stores |-> [S EXCEPT ![msg_data] = o[2]],
             result |-> IF o[1].ok THEN SvcOk([NoBody EXCEPT !.msg = "ok"])
                        ELSE PluginError(1, <<"Failed to open tasks: ", o[1].err>>)]
    ELSE [PROJECT_PATH |-> path, TASKS |-> cell, stores |-> S,
          result |-> PluginError(-1, <<"Unknown message type: ", msg_type>>)]

(***************************************************************************)
(* The state machine.  The host calls one entry point at a time (the task  *)
(* manager runs one operation at a time); req and resp hold the call in    *)
(* progress and its result until the result is back with the caller.       *)
(***************************************************************************)
NoReq == [op |-> "idle", method |-> "", json_ok |-> TRUE, name |-> NoneTxt,
          args |-> NoArgs, deps |-> {}, io |-> TRUE]
NoResp == SvcOk(NoBody)

Request(op, method, json_ok, name, args, deps, io) ==
    [op |-> op, method |-> method, json_ok |-> json_ok, name |-> name,
     args |-> args, deps |-> deps, io |-> io]

\* Inputs.  A call carries `io`: whether the store's I/O works during it;
\* it is varied for the calls that get as far as the store.
Ids1 == {Some(i) : i \in 1..MaxTasks}
ValidStatus == {Some(n) : n \in StatusNames}
OtherStatus == {Some(S_inprogress), Some(S_Done)}
RegCodes == {0, 1}

Call(name, args, io) == [name |-> name, args |-> args, io |-> io]

ToolCalls ==
    {Call(Some("tasks_list"), [NoArgs EXCEPT !.status = st], io) :
        st \in {NoneStr} \cup ValidStatus \cup OtherStatus, io \in BOOLEAN}
    \cup {Call(Some("tasks_create"), [NoArgs EXCEPT !.title = t], TRUE) :
              t \in {NoneTxt, Some("")}}
    \cup {Call(Some("tasks_create"), [NoArgs EXCEPT !.title = Some("A")], io) :
              io \in BOOLEAN}
    \cup {Call(n, NoArgs, TRUE) :
              n \in {NoneTxt, Some("tasks_purge"), Some("tasks_show"),
                     Some("tasks_update"), Some("tasks_delete")}}
    \cup {Call(n, [NoArgs EXCEPT !.id = i], io) :
              n \in {Some("tasks_show"), Some("tasks_delete")}, i \in Ids1, io \in BOOLEAN}
    \cup {Call(Some("tasks_update"), [NoArgs EXCEPT !.id = i, !.status = st], TRUE) :
              i \in Ids1, st \in {NoneStr} \cup OtherStatus}
    \cup {Call(Some("tasks_update"), [NoArgs EXCEPT !.id = i, !.status = st], io) :
              i \in Ids1, st \in ValidStatus, io \in BOOLEAN}

ResourceReads ==
    {Call(n, NoArgs, TRUE) : n \in {NoneTxt, Some("tasks://done")}}
    \cup {Call(n, NoArgs, io) :
              n \in {Some("tasks://all"), Some("tasks://ready")}, io \in BOOLEAN}

NoCall == Call(NoneTxt, NoArgs, TRUE)

\* The invocations of a service: its listing method, a method it does not
\* have, a call whose arguments are not JSON, and the calls proper.
Invocations(listing, calling, calls) ==
    {[method |-> m, json_ok |-> TRUE, p |-> NoCall] : m \in {listing, "describe"}}
    \cup {[method |-> calling, json_ok |-> FALSE, p |-> NoCall]}
    \cup {[method |-> calling, json_ok |-> TRUE, p |-> c] : c \in calls}

\* The direct calls of create_task.
Creates ==
    {[title |-> "", depends_on |-> {}, io |-> TRUE]}
    \cup {[title |-> "A", depends_on |-> d, io |-> io] :
              d \in SUBSET (1..MaxTasks), io \in BOOLEAN}

\* The log of the ids that successful creates returned, after a call that
\* returned `result`.
Issue(log, created, result) ==
    IF created /\ result.ok THEN Append(log, result.body.id) ELSE log

\* The manager's store can still hand out an id within the bound.
CanIssue ==
    TasksGet(TASKS).some => stores[TasksGet(TASKS).v].next_id <= MaxTasks

Init ==
    /\ TASKS = OnceCellNew
    /\ PROJECT_PATH = OnceCellNew
    /\ stores = [l \in Locations |-> NoStore]
    /\ issued = <<>>
    /\ req = NoReq
    /\ resp = NoResp

PluginInit ==
    \E open_ok \in BOOLEAN, tools_reg \in RegCodes, resources_reg \in RegCodes :
        LET r == plugin_init(TASKS, PROJECT_PATH, stores, open_ok, tools_reg, resources_reg)
        IN /\ req.op = "idle"
           /\ TASKS' = r.TASKS
           /\ PROJECT_PATH' = r.PROJECT_PATH
           /\ stores' = r.stores
           /\ req' = Request("plugin_init", "", TRUE, NoneTxt, NoArgs, {}, open_ok)
           /\ resp' = [ok |-> r.code = 0, err |-> <<>>, code |-> r.code, body |-> NoBody]
           /\ UNCHANGED issued

HandleMessage ==
    \E msg_type \in {"set_project_path", "reload"}, msg_data \in ProjectPaths,
       open_ok \in BOOLEAN :
        LET r == handle_message(TASKS, PROJECT_PATH, stores, msg_type, msg_data, open_ok)
        IN /\ req.op = "idle"
           /\ TASKS' = r.TASKS
           /\ PROJECT_PATH' = r.PROJECT_PATH
           /\ stores' = r.stores
           /\ req' = Request("handle_message", msg_type, TRUE, Some(msg_data), NoArgs, {}, open_ok)
           /\ resp' = r.result
           /\ UNCHANGED issued

McpToolsInvoke ==
    \E i \in Invocations("list_tools", "call_tool", ToolCalls) :
        LET method == i.method
            json_ok == i.json_ok
            p == i.p
            io == i.p.io
            r == mcp_tools_invoke(TASKS, stores, method, json_ok, p, io)
        IN /\ req.op = "idle"
           /\ p.name = Some("tasks_create") => CanIssue
           /\ stores' = r[2]
           /\ issued' = Issue(issued, r[1].body.msg = "Created task #", r[1])
           /\ req' = Request("mcp_tools_invoke", method, json_ok, p.name, p.args, {}, io)
           /\ resp' = r[1]
           /\ UNCHANGED <<TASKS, PROJECT_PATH>>

McpResourcesInvoke ==
    \E i \in Invocations("list_resources", "read_resource", ResourceReads) :
        LET method == i.method
            json_ok == i.json_ok
            p == i.p
            io == i.p.io
            r == mcp_resources_invoke(TASKS, stores, method, json_ok, p, io)
        IN /\ req.op = "idle"
           /\ stores' = r[2]
           /\ req' = Request("mcp_resources_invoke", method, json_ok, p.name, p.args, {}, io)
           /\ resp' = r[1]
           /\ UNCHANGED <<TASKS, PROJECT_PATH, issued>>

\* A direct caller of the manager's create_task, with dependencies.
CreateTask ==
    \E c \in Creates :
        LET title == c.title
            deps == c.depends_on
            io == c.io
        IN
        /\ req.op = "idle"
        /\ TasksGet(TASKS).some
        /\ CanIssue
        /\ LET loc == TasksGet(TASKS).v
               r == create_task(stores[loc],
                        [title |-> title, description |-> NoneTxt, depends_on |-> deps], io)
           IN /\ stores' = [stores EXCEPT ![loc] = r[2]]
              /\ req' = Request("create_task", "", TRUE, NoneTxt,
                                [NoArgs EXCEPT !.title = Some(title)], deps, io)
              /\ resp' = IF r[1].ok THEN SvcOk([NoBody EXCEPT !.id = r[1].id])
                         ELSE map_err(r[1])
              /\ issued' = Issue(issued, TRUE, resp')
        /\ UNCHANGED <<TASKS, PROJECT_PATH>>

\* A direct caller of the manager's dependency-affecting operation.
AddDependencies ==
    \E id \in 1..MaxTasks, deps \in SUBSET (1..MaxTasks) \ {{}}, io \in BOOLEAN :
        /\ req.op = "idle"
        /\ TasksGet(TASKS).some
        /\ LET loc == TasksGet(TASKS).v
               r == add_dependencies(stores[loc], id, deps, io)
           IN /\ stores' = [stores EXCEPT ![loc] = r[2]]
              /\ req' = Request("add_dependencies", "", TRUE, NoneTxt,
                                [NoArgs EXCEPT !.id = Some(id)], deps, io)
              /\ resp' = IF r[1].ok THEN SvcOk([NoBody EXCEPT !.id = r[1].id])
                         ELSE map_err(r[1])
        /\ UNCHANGED <<TASKS, PROJECT_PATH, issued>>

\* The result of the call in progress is back with the caller.
Return ==
    /\ req.op # "idle"
    /\ req' = NoReq
    /\ resp' = NoResp
    /\ UNCHANGED <<TASKS, PROJECT_PATH, stores, issued>>

Next ==
    \/ PluginInit
    \/ HandleMessage
    \/ McpToolsInvoke
    \/ McpResourcesInvoke
    \/ CreateTask
    \/ AddDependencies
    \/ Return

Spec == Init /\ [][Next]_vars

(***************************************************************************)
(* Vocabulary of the properties.                                           *)
(***************************************************************************)
\* The manager every tool call and resource read uses, if there is one.
Mgr == TasksGet(TASKS)

\* r is a call of tool `name` that reached call_tool.
ToolCall(r, name) ==
    /\ r.op = "mcp_tools_invoke"
    /\ r.method = "call_tool"
    /\ r.json_ok
    /\ r.name = Some(name)

\* r is any invocation of call_tool.
AnyToolCall(r) == r.op = "mcp_tools_invoke" /\ r.method = "call_tool" /\ r.json_ok

\* r is any invocation of read_resource.
AnyResourceRead(r) ==
    r.op = "mcp_resources_invoke" /\ r.method = "read_resource" /\ r.json_ok /\ r.name.some

\* r is a read of resource `uri`.
ResourceRead(r, uri) == AnyResourceRead(r) /\ r.name = Some(uri)

\* The TaskStatus a status name stands for.
StatusOfName(n) ==
    CASE n = S_todo        -> "Todo"
      [] n = S_in_progress -> "InProgress"
      [] n = S_done        -> "Done"
      [] n = S_blocked     -> "Blocked"
      [] n = S_cancelled   -> "Cancelled"

\* The call failed with the error `kind` as its message.
Failed(kind) == InvocationError(<<kind>>)

Range(f) == {f[i] : i \in DOMAIN f}

\* A sequence of tasks is in strictly ascending id order.
AscendingById(ts) == \A i, j \in DOMAIN ts : i < j => ts[i].id < ts[j].id

\* The stored tasks that satisfy Keep, as a set.
Stored(store, Keep(_)) == {store.tasks[t] : t \in {u \in Ids(store) : Keep(store.tasks[u])}}

\* The transition table of the status state machine, as (from, to) pairs.
TransitionTable ==
    {<<"Todo", "InProgress">>, <<"Todo", "Blocked">>, <<"Todo", "Cancelled">>,
     <<"InProgress", "Done">>, <<"InProgress", "Blocked">>,
     <<"InProgress", "Cancelled">>, <<"InProgress", "Todo">>,
     <<"Blocked", "Todo">>, <<"Blocked", "InProgress">>, <<"Blocked", "Cancelled">>}

\* The depends_on relation of a store, as (task, dependency) pairs.
Edges(store) == UNION {{<<t, d>> : d \in store.tasks[t].depends_on} : t \in Ids(store)}

RECURSIVE PathWithin(_, _, _, _)
\* There is a path of at most n edges of E from a to b.
PathWithin(E, a, b, n) ==
    /\ n > 0
    /\ \/ <<a, b>> \in E
       \/ \E e \in E : e[1] = a /\ PathWithin(E, e[2], b, n - 1)

Acyclic(store) ==
    \A t \in Ids(store) : ~PathWithin(Edges(store), t, t, Cardinality(Ids(store)))

\* Adding the edges id -> d, d in proposed, would close a cycle through id.
ClosesCycle(store, id, proposed) ==
    \E d \in proposed :
        d = id \/ PathWithin(Edges(store), d, id, Cardinality(Ids(store)))

C2_IllegalTransitionRejected ==
    [][(/\ ToolCall(req', "tasks_update")
        /\ req'.io
        /\ Mgr.some
        /\ req'.args.id.some
        /\ req'.args.status.some
        /\ req'.args.status.v \in StatusNames
        /\ req'.args.id.v \in Ids(stores[Mgr.v])
        /\ <<stores[Mgr.v].tasks[req'.args.id.v].status,
             StatusOfName(req'.args.status.v)>> \notin TransitionTable)
       => (resp' = Failed("InvalidTransition") /\ stores' = stores)]_vars

\* An update to the status the task already has was refused.
C2_Witness ==
    /\ ToolCall(req, "tasks_update")
    /\ resp = Failed("InvalidTransition")
    /\ req.args.id.v \in Ids(stores[Mgr.v])
    /\ stores[Mgr.v].tasks[req.args.id.v].status = StatusOfName(req.args.status.v)

(***************************************************************************)
(* C3.  A read of "tasks://ready" returns exactly the stored tasks whose   *)
(* status is Todo and whose dependencies all have status Done, in          *)
(* ascending id order, the store's I/O working.                            *)
(***************************************************************************)
C3_ReadyView ==
    (ResourceRead(req, "tasks://ready") /\ req.io /\ Mgr.some) =>
        LET store == stores[Mgr.v]
            Ready(t) == /\ t.status = "Todo"
                        /\ \A d \in t.depends_on :
                              d \in Ids(store) /\ store.tasks[d].status = "Done"
        IN /\ resp.ok
           /\ AscendingById(resp.body.tasks)
           /\ Range(resp.body.tasks) = Stored(store, Ready)

\* The ready view held a task with a dependency while another stored task
\* was left out of it.
C3_Witness ==
    /\ ResourceRead(req, "tasks://ready")
    /\ resp.ok
    /\ \E i \in DOMAIN resp.body.tasks : resp.body.tasks[i].depends_on # {}
    /\ Len(resp.body.tasks) < Cardinality(Ids(stores[Mgr.v]))

(***************************************************************************)
(* C4.  A tasks_delete call for a task that some stored task depends on    *)
(* fails with HasDependents and leaves the stores as they were; for an     *)
(* existing task with no dependents it succeeds and removes the task; a    *)
(* removed task never comes back, and a list result holds stored tasks     *)
(* only.                                                                   *)
(***************************************************************************)
C4_DeletionGuard ==
    [][/\ (/\ ToolCall(req', "tasks_delete")
           /\ req'.io
           /\ Mgr.some
           /\ req'.args.id.some
           /\ req'.args.id.v \in Ids(stores[Mgr.v]))
          => LET store == stores[Mgr.v]
                 id == req'.args.id.v
             IN IF \E t \in Ids(store) : id \in store.tasks[t].depends_on
                THEN resp' = Failed("HasDependents") /\ stores' = stores
                ELSE /\ resp'.ok
                     /\ Ids(stores'[Mgr.v]) = Ids(store) \ {id}
       /\ \A l \in Locations : \A id \in Range(issued) :
              id \notin Ids(stores[l]) => id \notin Ids(stores'[l])
       /\ (Mgr.some /\ (ToolCall(req', "tasks_list") \/ ResourceRead(req', "tasks://all")))
              => \A i \in DOMAIN resp'.body.tasks :
                     resp'.body.tasks[i].id \in Ids(stores'[Mgr.v])]_vars

\* A delete was refused because of a dependent.
C4_Witness ==
    /\ ToolCall(req, "tasks_delete")
    /\ resp = Failed("HasDependents")
    /\ \E t \in Ids(stores[Mgr.v]) : req.args.id.v \in stores[Mgr.v].tasks[t].depends_on

(***************************************************************************)
(* C5.  The depends_on relation of every store is acyclic in every         *)
(* reachable state, and an operation that proposes edges to existing       *)
(* tasks which would close a cycle through the task being edited fails     *)
(* with CyclicDependency and leaves the stores as they were.               *)
(***************************************************************************)
C5_Acyclic ==
    /\ [](\A l \in Locations : Acyclic(stores[l]))
    /\ [][(/\ req'.op = "add_dependencies"
           /\ req'.io
           /\ req'.args.id.v \in Ids(stores[Mgr.v])
           /\ req'.deps \subseteq Ids(stores[Mgr.v])
           /\ ClosesCycle(stores[Mgr.v], req'.args.id.v, req'.deps))
          => (resp' = Failed("CyclicDependency") /\ stores' = stores)]_vars

\* Edges that would have closed a cycle through another task were refused.
C5_Witness ==
    /\ req.op = "add_dependencies"
    /\ resp = Failed("CyclicDependency")
    /\ req.args.id.v \notin req.deps
    /\ Edges(stores[Mgr.v]) # {}

(***************************************************************************)
(* C6.  create_task with a non-empty title and a depends_on entry that     *)
(* names no stored task fails with UnknownDependency, stores nothing and   *)
(* consumes no id (the store's I/O working): every successful create       *)
(* returns the id that was next before it.                                 *)
(***************************************************************************)
C6_UnknownDependencyRejected ==
    [][/\ (/\ req'.op = "create_task"
           /\ req'.io
           /\ req'.args.title.v # ""
           /\ \E d \in req'.deps : d \notin Ids(stores[Mgr.v]))
          => /\ resp' = Failed("UnknownDependency")
             /\ stores' = stores
             /\ issued' = issued
       /\ (req'.op = "create_task" /\ resp'.ok)
          => /\ resp'.body.id = stores[Mgr.v].next_id
             /\ resp'.body.id = Len(issued) + 1]_vars

\* A create naming a dependency that does not exist was refused after an
\* earlier create had succeeded.
C6_Witness ==
    /\ req.op = "create_task"
    /\ resp = Failed("UnknownDependency")
    /\ Len(issued) >= 1
    /\ stores[Mgr.v].next_id = Len(issued) + 1

(***************************************************************************)
(* C7.  tasks_list with one of the five status names as its filter         *)
(* returns exactly the stored tasks whose status that name stands for, and *)
(* without a filter returns all stored tasks (the store's I/O working).    *)
(***************************************************************************)
C7_ListFilter ==
    (ToolCall(req, "tasks_list") /\ req.io /\ Mgr.some
        /\ (req.args.status.some => req.args.status.v \in StatusNames)) =>
        LET store == stores[Mgr.v]
            Keep(t) == req.args.status.some => t.status = StatusOfName(req.args.status.v)
        IN /\ resp.ok
           /\ Range(resp.body.tasks) = Stored(store, Keep)

(***************************************************************************)
(* C8.  A tasks_update or tasks_list call whose status argument is a       *)
(* string other than the five status names is rejected with an error.      *)
(***************************************************************************)
C8_UnknownStatusRejected ==
    (/\ ToolCall(req, "tasks_update") \/ ToolCall(req, "tasks_list")
     /\ Mgr.some
     /\ req.io
     /\ req.args.status.some
     /\ req.args.status.v \notin StatusNames)
    => ~resp.ok

(***************************************************************************)
(* C9.  Once set, TASKS and PROJECT_PATH never change; a message leaves    *)
(* both, and the tasks of the manager's store, as they were; and no tool   *)
(* call or resource read changes a store other than the manager's.         *)
(***************************************************************************)
C9_ManagerFixed ==
    [][/\ TASKS.init => TASKS' = TASKS
       /\ PROJECT_PATH.init => PROJECT_PATH' = PROJECT_PATH
       /\ req'.op = "handle_message" =>
              /\ TASKS' = TASKS
              /\ PROJECT_PATH' = PROJECT_PATH
              /\ Mgr.some => stores'[Mgr.v] = stores[Mgr.v]
       /\ req'.op \in {"mcp_tools_invoke", "mcp_resources_invoke"} =>
              \A l \in Locations : (Mgr.some => l # Mgr.v) => stores'[l] = stores[l]]_vars

\* set_project_path answered "ok" and opened the store at its path while the
\* manager held tasks.
C9_Witness ==
    /\ req.op = "handle_message"
    /\ req.method = "set_project_path"
    /\ resp.ok
    /\ stores[req.name.v].exists
    /\ Mgr.some
    /\ Mgr.v # req.name.v
    /\ Ids(stores[Mgr.v]) # {}

(***************************************************************************)
(* C10.  While there is no manager (plugin_init has not run, or its first  *)
(* run failed to open the store), every call_tool and read_resource        *)
(* invocation fails with "Tasks not initialized" and changes no store;     *)
(* only plugin_init ends the first condition and nothing ends the second.  *)
(***************************************************************************)
C10_NotInitialized ==
    [][/\ ((AnyToolCall(req') \/ AnyResourceRead(req')) /\ ~Mgr.some)
          => (resp' = Failed("Tasks not initialized") /\ stores' = stores)
       /\ (~TASKS.init /\ req'.op # "plugin_init") => ~TASKS'.init
       /\ (~TASKS.init /\ req'.op = "plugin_init") =>
              (TASKS'.init /\ (TASKS'.v.some <=> req'.io))
       /\ (TASKS.init /\ ~TASKS.v.some) => (TASKS'.init /\ ~TASKS'.v.some)]_vars

\* A tool call was refused although a later plugin_init had opened the
\* store that the first one could not open.
C10_Witness ==
    /\ AnyToolCall(req)
    /\ resp = Failed("Tasks not initialized")
    /\ TASKS.init
    /\ stores[GlobalLoc].exists

====
